---- MODULE Spec2Model ----
(***************************************************************************)
(* A model of the search engine: the normalizer (normalize.rs), the index  *)
(* builder and the store's persistence (indexer.rs) and the scorer         *)
(* (search.rs).                                                            *)
(*                                                                         *)
(* Text is a sequence of characters.  A character is a TLA+ string naming  *)
(* a code point; the model's alphabet holds one or more code points of     *)
(* every class that normalize_text and tokenize tell apart:                *)
(*   "a" "b" "i"   Latin lower-case letters             (1 byte in UTF-8)  *)
(*   "A"           a Latin upper-case letter            (1 byte)           *)
(*   "1" "2"       decimal digits                       (1 byte)           *)
(*   "HEH" "ALEF" "NOON"   U+0647, U+0627, U+0646       (2 bytes)          *)
(*   "KEHEH" "FYEH"        U+06A9, U+06CC (Persian)     (2 bytes)          *)
(*   "AKAF" "AYEH"         U+0643, U+064A (Arabic)      (2 bytes)          *)
(*   "IDOT"        U+0130, whose lower case is the two code points         *)
(*                 U+0069 U+0307                        (2 bytes)          *)
(*   "DOTABOVE"    U+0307 combining dot above: neither alphabetic nor      *)
(*                 numeric                              (2 bytes)          *)
(*   "ZWNJ"        U+200C zero-width non-joiner         (3 bytes)          *)
(*   "SP"          U+0020 space                         (1 byte)           *)
(*   "PUNCT"       any other separator, such as '-'     (1 byte)           *)
(***************************************************************************)
EXTENDS Integers, Sequences, FiniteSets, TLC

VARIABLES
    \* the tokenizer on its own
    tpc,            \* "off", "input" or "done"
    tinput,         \* the string given to tokenize
    ttokens,        \* the tokens tokenize returned
    \* build_index
    pc,             \* the position of build_index
    walk,           \* what WalkDir yields for input_dir, in its order
    limit,          \* the limit argument: <<>> (None) or <<n>>
    selected,       \* the selected directory entries
    task,           \* the state of each per-document task of the pool
    page,           \* the Page each running task parsed
    processed_data, \* the collected results, one slot per selected entry
    store,          \* the IndexStore under assembly
    next_doc,       \* the doc_id the assembly loop assigns next
    blob,           \* the serialized store, in units
    wpos,           \* the number of units serialize_into has written
    bw,             \* the BufWriter's buffer
    disk,           \* the content of the file at out
    outcome,        \* what build_index or save returns: "none", "Ok" or "Err"
    dir_exists,     \* whether the parent directory of the output path exists
    io_error,       \* whether an operation of build_index or save on the
                    \* output path has failed for another reason than a
                    \* missing parent directory
    load_outcome,   \* what load returns: "none", "Ok", or an error, which
                    \* is "Corrupt" (the decoder's) or "IoErr" (the file's)
    loaded,         \* the store load returned
    \* the scorer on its own
    spc,            \* "off", "ready", "once" or "twice"
    files,          \* the files the index was built from
    idx,            \* the IndexStore the queries read
    arg_query,      \* the query of the call
    arg_top_k,      \* the top_k of the call
    returned,       \* what the call returned
    returned2,      \* what the same call returned the second time
    arg_query2,     \* the query of a second call that gives the words of the
                    \* first in another order
    \* the spell suggester and the handler's expansion of its suggestions
    arg_token,            \* the token of the call of suggest_terms
    arg_max_dist,         \* its max_dist
    arg_max_suggestions,  \* its max_suggestions
    suggested,            \* what the call returned
    suggested2,           \* what the same call returned on a store with the
                          \* same content and another iteration order
    sug_results           \* what search returned for each suggestion so far;
                          \* the handler's extra_results is their concatenation

tokVars == <<tpc, tinput, ttokens>>

buildVars == <<pc, walk, limit, selected, task, page, processed_data, store,
               next_doc, blob, wpos, bw, disk, outcome, dir_exists, io_error,
               load_outcome, loaded>>

loadVars == <<load_outcome, loaded>>

suggestVars == <<arg_token, arg_max_dist, arg_max_suggestions, suggested,
                 suggested2, sug_results>>

searchVars == <<spc, files, idx, arg_query, arg_top_k, returned, returned2,
                arg_query2, arg_token, arg_max_dist, arg_max_suggestions, suggested,
                suggested2, sug_results>>

vars == <<tpc, tinput, ttokens, pc, walk, limit, selected, task, page,
          processed_data, store, next_doc, blob, wpos, bw, disk, outcome,
          dir_exists, io_error, load_outcome, loaded,
          spc, files, idx, arg_query, arg_top_k, returned, returned2,
          arg_query2, arg_token, arg_max_dist, arg_max_suggestions, suggested,
          suggested2, sug_results>>

(***************************************************************************)
(* Bounds of the model.                                                    *)
(***************************************************************************)
\* Longest input string over the whole alphabet given to tokenize.
MaxLen == 3
\* Longest input string over the suffix alphabet given to tokenize.
MaxWordLen == 5
\* Most entries WalkDir yields.
MaxWalk == 3
\* Largest limit argument of build_index (besides None).
MaxLimit == 2
\* The BufWriter's capacity in units of the blob (1024 * 1024 bytes in the
\* code; scaled down so that a blob of the model can exceed it).
BufCapacity == 3
\* Most files of an index the scorer is run on.
MaxDocs == 3
\* Largest top_k given to search.
MaxTopK == 2
\* Most files of an index the proximity queries are run on.
MaxProxDocs == 2
\* Most files of an index the spell suggester is run on.
MaxSuggestDocs == 2
\* Largest max_dist given to suggest_terms.
MaxDistArg == 2
\* Largest max_suggestions given to suggest_terms.
MaxSuggestionsArg == 3

(***************************************************************************)
(* Characters.                                                             *)
(***************************************************************************)
Letters == {"a", "b", "i", "A", "HEH", "ALEF", "NOON", "KEHEH", "FYEH",
            "AKAF", "AYEH", "IDOT"}

Digits == {"1", "2"}

\* char::is_alphabetic
is_alphabetic(c) == c \in Letters

\* char::is_numeric
is_numeric(c) == c \in Digits

\* char::is_alphanumeric
is_alphanumeric(c) == is_alphabetic(c) \/ is_numeric(c)

\* char::is_whitespace, as str::split_whitespace uses it
is_whitespace(c) == c = "SP"

\* char::len_utf8
len_utf8(c) ==
    IF c \in {"a", "b", "i", "A", "1", "2", "SP", "PUNCT"} THEN 1
    ELSE IF c = "ZWNJ" THEN 3
    ELSE 2

\* char::to_lowercase: an iterator of one or more characters
to_lowercase(c) ==
    IF c = "A" THEN <<"a">>
    ELSE IF c = "IDOT" THEN <<"i", "DOTABOVE">>
    ELSE <<c>>

\* str::len: the length in bytes
RECURSIVE ByteLen(_)
ByteLen(w) == IF w = <<>> THEN 0 ELSE len_utf8(Head(w)) + ByteLen(Tail(w))

\* str::ends_with
ends_with(w, suf) ==
    /\ Len(w) >= Len(suf)
    /\ SubSeq(w, Len(w) - Len(suf) + 1, Len(w)) = suf

\* The two suffixes of tokenize: U+0647 U+0627 and U+0627 U+0646
SUFFIX_HA == <<"HEH", "ALEF">>

SUFFIX_AN == <<"ALEF", "NOON">>

(***************************************************************************)
(* normalize_text: one pass over the characters with the state             *)
(* last_was_digit in {"None", "SomeTrue", "SomeFalse"}.                    *)
(***************************************************************************)
\* A normalizer that pushes no space at a digit/letter boundary.
NoBoundarySpace(last_was_digit, c) == <<>>

\* normalize.rs 16-20: the space pushed before a character at a
\* digit/letter boundary.
BoundarySpace(last_was_digit, c) ==
    IF \/ (last_was_digit = "SomeTrue" /\ is_alphabetic(c))
       \/ (last_was_digit = "SomeFalse" /\ is_numeric(c))
    THEN <<"SP">> ELSE <<>>

\* The match on c: what is pushed and the new last_was_digit.
MatchChar(c) ==
    IF c = "AYEH" THEN [out |-> <<"FYEH">>, last |-> "SomeFalse"]
    ELSE IF c = "AKAF" THEN [out |-> <<"KEHEH">>, last |-> "SomeFalse"]
    ELSE IF c = "ZWNJ" THEN [out |-> <<"SP">>, last |-> "None"]
    ELSE IF is_alphanumeric(c)
         THEN [out |-> to_lowercase(c),
               last |-> IF is_numeric(c) THEN "SomeTrue" ELSE "SomeFalse"]
    ELSE [out |-> <<"SP">>, last |-> "None"]

RECURSIVE NormalizeFrom(_, _, _)
NormalizeFrom(input, s, last_was_digit) ==
    IF input = <<>> THEN s
    ELSE LET c == Head(input)
             m == MatchChar(c)
         IN NormalizeFrom(Tail(input),
                          s \o BoundarySpace(last_was_digit, c) \o m.out,
                          m.last)

normalize_text(input) == NormalizeFrom(input, <<>>, "None")

(***************************************************************************)
(* tokenize: split on whitespace, then strip one suffix from each word.    *)
(***************************************************************************)
\* str::split_whitespace: the maximal runs of non-whitespace characters
RECURSIVE SplitFrom(_, _, _)
SplitFrom(s, cur, acc) ==
    IF s = <<>> THEN (IF cur = <<>> THEN acc ELSE Append(acc, cur))
    ELSE IF is_whitespace(Head(s))
         THEN SplitFrom(Tail(s), <<>>, IF cur = <<>> THEN acc ELSE Append(acc, cur))
    ELSE SplitFrom(Tail(s), Append(cur, Head(s)), acc)

split_whitespace(s) == SplitFrom(s, <<>>, <<>>)

\* String::truncate(new_len): the prefix of new_len bytes.  new_len falls on
\* a character boundary in every call tokenize makes (it removes the 4 bytes
\* of a 2-character suffix), so the panic of a cut inside a character is
\* not reachable.
RECURSIVE truncate(_, _)
truncate(w, new_len) ==
    IF ByteLen(w) <= new_len THEN w
    ELSE truncate(SubSeq(w, 1, Len(w) - 1), new_len)

\* The closure tokenize maps over the words (normalize.rs 53-61).
StripSuffix(w) ==
    IF ByteLen(w) > 4
    THEN IF ends_with(w, SUFFIX_HA) \/ ends_with(w, SUFFIX_AN)
         THEN truncate(w, ByteLen(w) - len_utf8(w[Len(w)]) * 2)
         ELSE w
    ELSE w

tokenize(input) ==
    LET words == split_whitespace(normalize_text(input))
    IN [i \in 1..Len(words) |-> StripSuffix(words[i])]

SeqsUpTo(S, n) == UNION {[1..k -> S] : k \in 0..n}

(***************************************************************************)
(* The input of build_index.  A file's content stands for what the HTML    *)
(* parser extracts from it: a Page's title and body, or "unreadable" when  *)
(* fs::read_to_string fails and parse_html_file returns an error.          *)
(***************************************************************************)
Pages ==
    [p1 |-> [title |-> <<"a">>, body |-> <<"a", "SP", "1">>],
     p2 |-> [title |-> <<>>, body |-> <<"1", "a", "SP", "a">>],
     p3 |-> [title |-> <<"A", "1">>, body |-> <<"b", "PUNCT", "a">>],
     p4 |-> [title |-> <<"IDOT">>,
             body |-> <<"a", "a", "a", "HEH", "ALEF", "HEH", "ALEF">>],
     p5 |-> [title |-> <<>>,
             body |-> <<"a", "SP", "1", "SP", "b", "SP", "b", "SP", "i", "SP",
                        "b", "SP", "b", "SP", "2">>]]

\* The files of a walk: p4 is kept for the stores the spell suggester
\* reads and p5 for the queries whose terms lie far apart.
Contents == {"unreadable", "p1", "p2", "p3"}

\* What WalkDir yields: an error, a directory, or a regular file.
WalkItems == {"err", "dir"} \cup Contents

\* Option<usize>: <<>> is None and <<n>> is Some(n).
Limits == {<<>>} \cup {<<n>> : n \in 0..MaxLimit}

\* DirEntry::file_type().is_file() of an entry that is Ok
IsFile(item) == item \in Contents

\* indexer.rs 57-61: the entries that are Ok and regular files, in the
\* walk's order, each with its path (here its place in the walk).
RECURSIVE EntriesFrom(_, _)
EntriesFrom(w, j) ==
    IF j > Len(w) THEN <<>>
    ELSE IF w[j] # "err" /\ IsFile(w[j])
         THEN <<[path |-> j, content |-> w[j]]>> \o EntriesFrom(w, j + 1)
    ELSE EntriesFrom(w, j + 1)

\* The entries again, without the files that cannot be read.
EntriesReadableOnly(w) ==
    SelectSeq(EntriesFrom(w, 1), LAMBDA e : e.content # "unreadable")

\* indexer.rs 57-61: entries
Entries(w) == EntriesFrom(w, 1)

Min(a, b) == IF a <= b THEN a ELSE b

\* indexer.rs 64-65: max_docs and the slice entries[..min(len, max_docs)]
Selected(entries, lim) ==
    LET max_docs == IF lim = <<>> THEN Len(entries) ELSE lim[1]
    IN SubSeq(entries, 1, Min(Len(entries), max_docs))

\* parser.rs 10-13: the Page of a file, or an error
parse_html_file(entry) ==
    IF entry.content = "unreadable" THEN [ok |-> FALSE]
    ELSE [ok |-> TRUE,
          page |-> [url |-> entry.path,
                    title |-> Pages[entry.content].title,
                    body |-> Pages[entry.content].body]]

\* indexer.rs 71-75: unwrap_or_else, the empty Page of a file that fails
ParsedPage(entry) ==
    LET r == parse_html_file(entry)
    IN IF r.ok THEN r.page
       ELSE [url |-> entry.path, title |-> <<>>, body |-> <<>>]

\* The number of characters of the body kept as the snippet.
SNIPPET_CHARS == 500

\* Iterator::take(n) over the characters
Take(s, n) == SubSeq(s, 1, Min(Len(s), n))

\* indexer.rs 84-87: the positions of term in all_tokens, 0-based, in the
\* order enumerate() visits them
RECURSIVE PositionsFrom(_, _, _)
PositionsFrom(all_tokens, term, i) ==
    IF i > Len(all_tokens) THEN <<>>
    ELSE (IF all_tokens[i] = term THEN <<i - 1>> ELSE <<>>)
         \o PositionsFrom(all_tokens, term, i + 1)

\* The positions counted from 1 instead of 0.
PosMapOneBased(all_tokens) ==
    [term \in {all_tokens[i] : i \in 1..Len(all_tokens)} |->
        [k \in 1..Len(PositionsFrom(all_tokens, term, 1)) |->
            PositionsFrom(all_tokens, term, 1)[k] + 1]]

\* indexer.rs 84-87: pos_map
PosMap(all_tokens) ==
    [term \in {all_tokens[i] : i \in 1..Len(all_tokens)} |->
        PositionsFrom(all_tokens, term, 1)]

\* A task that takes the body's tokens alone for the length.
ProcessPageBodyLength(p) ==
    LET title_tokens == tokenize(p.title)
        body_tokens == tokenize(p.body)
        all_tokens == title_tokens \o body_tokens
        length == Len(body_tokens)
    IN [meta |-> [url |-> p.url, title |-> p.title,
                  body |-> Take(p.body, SNIPPET_CHARS), length |-> length],
        pos_map |-> PosMap(all_tokens)]

\* indexer.rs 77-99: the rest of one per-document task, from its Page
ProcessPage(p) ==
    LET title_tokens == tokenize(p.title)
        body_tokens == tokenize(p.body)
        all_tokens == title_tokens \o body_tokens
        length == Len(all_tokens)
    IN [meta |-> [url |-> p.url, title |-> p.title,
                  body |-> Take(p.body, SNIPPET_CHARS), length |-> length],
        pos_map |-> PosMap(all_tokens)]

\* A slot of processed_data that no task has filled yet; a filled slot is
\* <<r>>.
NoResult == <<>>

\* A collector that takes the results in the order the tasks finish.
CollectInCompletionOrder(pd, i, r) ==
    LET free == {j \in DOMAIN pd : pd[j] = NoResult}
        first == CHOOSE j \in free : \A k \in free : j <= k
    IN [pd EXCEPT ![first] = <<r>>]

\* indexer.rs 67-101: the collect() of the parallel iterator: an indexed
\* iterator writes the result of the i-th item to the i-th slot.
Collect(pd, i, r) == [pd EXCEPT ![i] = <<r>>]

\* IndexStore::new
NewStore == [dict |-> <<>>, docs |-> <<>>, doc_count |-> 0]

\* indexer.rs 104-114: one iteration of the assembly loop
AssembleDoc(s, doc_id, r) ==
    LET terms == DOMAIN s.dict \cup DOMAIN r.pos_map
        old(t) == IF t \in DOMAIN s.dict THEN s.dict[t] ELSE <<>>
        new(t) == IF t \in DOMAIN r.pos_map
                  THEN <<[doc_id |-> doc_id,
                          tf |-> Len(r.pos_map[t]),
                          positions |-> r.pos_map[t]]>>
                  ELSE <<>>
    IN [s EXCEPT !.docs = Append(s.docs, r.meta),
                 !.dict = [t \in terms |-> old(t) \o new(t)]]

\* slice::sort_by_key(|p| p.doc_id): a stable sort, by insertion
RECURSIVE InsertByDocId(_, _)
InsertByDocId(sorted, p) ==
    IF sorted = <<>> THEN <<p>>
    ELSE IF sorted[Len(sorted)].doc_id <= p.doc_id THEN Append(sorted, p)
    ELSE Append(InsertByDocId(SubSeq(sorted, 1, Len(sorted) - 1), p),
                sorted[Len(sorted)])

RECURSIVE SortFrom(_, _, _)
SortFrom(postings, i, acc) ==
    IF i > Len(postings) THEN acc
    ELSE SortFrom(postings, i + 1, InsertByDocId(acc, postings[i]))

sort_by_doc_id(postings) == SortFrom(postings, 1, <<>>)

\* indexer.rs 117-121: doc_count, and every posting list sorted
Freeze(s) ==
    [s EXCEPT !.doc_count = Len(s.docs),
              !.dict = [t \in DOMAIN s.dict |-> sort_by_doc_id(s.dict[t])]]

\* The store build_index assembles from the selected entries when the
\* results are taken in the entries' order.
RECURSIVE AssembleFrom(_, _, _)
AssembleFrom(sel, i, s) ==
    IF i > Len(sel) THEN s
    ELSE AssembleFrom(sel, i + 1,
                      AssembleDoc(s, i - 1, ProcessPage(ParsedPage(sel[i]))))

IndexOf(sel) == Freeze(AssembleFrom(sel, 1, NewStore))

(***************************************************************************)
(* IndexStore::save.  The blob is a sequence of units, in the order        *)
(* bincode writes the fields: the dictionary (its length, then its entries *)
(* in the map's iteration order), the documents (their number, then each)  *)
(* and doc_count.                                                          *)
(***************************************************************************)
\* The orders in which a HashMap or HashSet with the keys S can be iterated.
Orderings(S) ==
    {f \in [1..Cardinality(S) -> S] : \A i, j \in DOMAIN f : f[i] = f[j] => i = j}

\* The order in which the dictionary yields its entries to the serializer.
\* It decides the order of the entries in the blob and nothing else, so one
\* order stands for all of them.
DictOrder(dict) == CHOOSE order \in Orderings(DOMAIN dict) : TRUE

Serialize(s, order) ==
    <<[len |-> Len(order)]>>
    \o [i \in 1..Len(order) |-> [term |-> order[i], postings |-> s.dict[order[i]]]]
    \o <<[len |-> Len(s.docs)]>>
    \o [i \in 1..Len(s.docs) |-> [doc |-> s.docs[i]]]
    \o <<[u64 |-> s.doc_count]>>

(***************************************************************************)
(* The scorer.  A score is an f64 in the code; the model holds it in       *)
(* fixed point, as a whole number of 1/Scale, and the natural logarithm of *)
(* the idf is summed from its series to that precision.  Documents with    *)
(* the same tf, length, title hits and proximity get the same score in     *)
(* both.                                                                   *)
(***************************************************************************)
Scale == 10 ^ 5

\* K1 = 1.2 in tenths, B = 0.75 in quarters, TITLE_WEIGHT = 5.0
K1_TENTHS == 12

B_QUARTERS == 3

TITLE_WEIGHT == 5

\* f64::ln of p / q for p >= q > 0, in fixed point:
\* ln(p/q) = 2 * (z + z^3/3 + z^5/5 + ..) with z = (p - q) / (p + q)
RECURSIVE LnSeries(_, _, _, _)
LnSeries(term, k, p, q) ==
    IF term = 0 THEN 0
    ELSE (term \div k)
         + LnSeries((term * (p - q) * (p - q)) \div ((p + q) * (p + q)), k + 2, p, q)

Ln(p, q) == 2 * LnSeries((Scale * (p - q)) \div (p + q), 1, p, q)

\* search.rs 40-41: idf = ln((doc_count - df + 0.5) / (df + 0.5) + 1.0),
\* the argument being (2 doc_count + 2) / (2 df + 1)
Idf(doc_count, df) == Ln(2 * doc_count + 2, 2 * df + 1)

RECURSIVE SumLengths(_, _)
SumLengths(docs, i) ==
    IF i > Len(docs) THEN 0 ELSE docs[i].length + SumLengths(docs, i + 1)

Max(a, b) == IF a >= b THEN a ELSE b

\* search.rs 33-34 with the max(1.0) of line 51: avg_len.max(1.0) as the
\* fraction num / den
AvgLen(index) ==
    LET total == SumLengths(index.docs, 1)
        n == Max(index.doc_count, 1)
    IN IF total >= n THEN [num |-> total, den |-> n] ELSE [num |-> 1, den |-> 1]

\* search.rs 48-52: the BM25 score of one posting,
\*   idf * (tf * (K1 + 1)) / (tf + K1 * (1 - B + B * doc_len / avg_len))
\* with numerator and denominator multiplied by 40 * avg.num
Bm25(index, p, idf) ==
    LET avg == AvgLen(index)
        doc_len == index.docs[p.doc_id + 1].length
        num == p.tf * (K1_TENTHS + 10) * 4 * avg.num
        denom == 40 * avg.num * p.tf
                 + K1_TENTHS * ((4 - B_QUARTERS) * avg.num
                                + B_QUARTERS * doc_len * avg.den)
    IN (idf * num) \div denom

\* The doc_ids of a posting list (search.rs 18).
DocIds(postings) == {postings[i].doc_id : i \in 1..Len(postings)}

\* The documents that hold some query term instead of every one.
CandidatesOfAnyTerm(index, qterms) ==
    {d \in DocIds(index.dict[qterms[1]]) \cup DocIds(index.dict[qterms[Len(qterms)]]) :
        \E i \in 1..Len(qterms) : d \in DocIds(index.dict[qterms[i]])}

\* search.rs 15-27: the candidate set; the caller has checked that every
\* query term is in the dictionary
Candidates(index, qterms) ==
    {d \in DocIds(index.dict[qterms[1]]) :
        \A i \in 1..Len(qterms) : d \in DocIds(index.dict[qterms[i]])}

\* search.rs 38-57: what the BM25 loop adds to the score of doc_id, term by
\* term in query order
RECURSIVE Bm25Sum(_, _, _, _)
Bm25Sum(index, qterms, i, doc_id) ==
    IF i > Len(qterms) THEN 0
    ELSE LET postings == index.dict[qterms[i]]
             idf == Idf(index.doc_count, Len(postings))
             hit == {j \in 1..Len(postings) : postings[j].doc_id = doc_id}
             RECURSIVE Over(_)
             Over(j) == IF j > Len(postings) THEN 0
                        ELSE (IF j \in hit THEN Bm25(index, postings[j], idf) ELSE 0)
                             + Over(j + 1)
         IN Over(1) + Bm25Sum(index, qterms, i + 1, doc_id)

\* search.rs 60-67: the number of query terms the title contains
TitleHits(index, qterms, doc_id) ==
    LET title_tokens == tokenize(index.docs[doc_id + 1].title)
    IN Cardinality({i \in 1..Len(qterms) :
                      \E j \in 1..Len(title_tokens) : title_tokens[j] = qterms[i]})

AbsDiff(a, b) == IF a >= b THEN a - b ELSE b - a

\* Iterator::find: the first posting of doc_id, <<>> when there is none
FindPosting(index, term, doc_id) ==
    IF term \notin DOMAIN index.dict THEN <<>>
    ELSE LET postings == index.dict[term]
             hit == {j \in 1..Len(postings) : postings[j].doc_id = doc_id}
         IN IF hit = {} THEN <<>>
            ELSE <<postings[CHOOSE j \in hit : \A k \in hit : j <= k]>>

\* The distance between the first positions of two postings.
FirstPairDist(pos1, pos2) == AbsDiff(pos1.positions[1], pos2.positions[1])

\* search.rs 107-115: the least |a - b| over the positions of two postings
BestPairDist(pos1, pos2) ==
    LET ds == {AbsDiff(pos1.positions[i], pos2.positions[j]) :
                  i \in 1..Len(pos1.positions), j \in 1..Len(pos2.positions)}
    IN CHOOSE d \in ds : \A e \in ds : d <= e

\* search.rs 93-119: min_total_dist and pair_found over the adjacent pairs
RECURSIVE PairScan(_, _, _, _)
PairScan(index, qterms, i, doc_id) ==
    IF i >= Len(qterms) THEN [dist |-> 0, found |-> FALSE]
    ELSE LET p1 == FindPosting(index, qterms[i], doc_id)
             p2 == FindPosting(index, qterms[i + 1], doc_id)
             rest == PairScan(index, qterms, i + 1, doc_id)
         IN IF p1 # <<>> /\ p2 # <<>>
            THEN [dist |-> BestPairDist(p1[1], p2[1]) + rest.dist, found |-> TRUE]
            ELSE rest

\* search.rs 121-127: the band of min_total_dist
Boost(d, n) ==
    IF d <= n - 1 THEN 5 * Scale
    ELSE IF d <= (n - 1) * 2 THEN (5 * Scale) \div 2
    ELSE IF d <= (n - 1) * 5 THEN Scale
    ELSE 0

\* search.rs 82-131: apply_proximity_boost, for one candidate
ProximityBoost(index, qterms, doc_id) ==
    IF Len(qterms) < 2 THEN [found |-> FALSE, boost |-> 0]
    ELSE LET s == PairScan(index, qterms, 1, doc_id)
         IN [found |-> s.found,
             boost |-> IF s.found THEN Boost(s.dist, Len(qterms)) ELSE 0]

\* search.rs 36-74: the scores map, a function from the doc_ids that got an
\* entry to their scores
Scores(index, qterms, candidates) ==
    LET hits == [d \in candidates |-> TitleHits(index, qterms, d)]
        prox == [d \in candidates |-> ProximityBoost(index, qterms, d)]
        bm25keys == {d \in candidates :
                        \E i \in 1..Len(qterms) : d \in DocIds(index.dict[qterms[i]])}
        titlekeys == {d \in candidates : hits[d] > 0}
        proxkeys == {d \in candidates : prox[d].found}
    IN [d \in bm25keys \cup titlekeys \cup proxkeys |->
          Bm25Sum(index, qterms, 1, d)
          + hits[d] * TITLE_WEIGHT * Scale
          + prox[d].boost]

\* slice::sort_by(|a, b| b.1.partial_cmp(&a.1)): a stable sort by score
\* descending, by insertion
RECURSIVE InsertByScore(_, _)
InsertByScore(sorted, r) ==
    IF sorted = <<>> THEN <<r>>
    ELSE IF sorted[Len(sorted)][2] >= r[2] THEN Append(sorted, r)
    ELSE Append(InsertByScore(SubSeq(sorted, 1, Len(sorted) - 1), r),
                sorted[Len(sorted)])

RECURSIVE SortByScoreFrom(_, _, _)
SortByScoreFrom(results, i, acc) ==
    IF i > Len(results) THEN acc
    ELSE SortByScoreFrom(results, i + 1, InsertByScore(acc, results[i]))

\* The same sort with the comparison turned around.
sort_by_score_ascending(results) ==
    LET sorted == SortByScoreFrom(results, 1, <<>>)
    IN [i \in 1..Len(sorted) |-> sorted[Len(sorted) + 1 - i]]

\* search.rs 77: results.sort_by(..)
sort_by_score(results) == SortByScoreFrom(results, 1, <<>>)

\* Vec::truncate
Truncate(results, n) == SubSeq(results, 1, Min(Len(results), n))

\* search.rs 9-31: the candidates of a query, {} on each early return
SearchCandidates(index, qterms) ==
    IF qterms = <<>> THEN {}
    ELSE IF \E i \in 1..Len(qterms) : qterms[i] \notin DOMAIN index.dict THEN {}
    ELSE Candidates(index, qterms)

\* search.rs 9-74: the scores map of a call; it has no entry when search
\* returns early
ScoresOf(index, query) ==
    LET qterms == tokenize(query)
        candidates == SearchCandidates(index, qterms)
    IN IF candidates = {} THEN <<>> ELSE Scores(index, qterms, candidates)

\* search.rs 76-79: the entries of the scores map in the order the map
\* yields them, sorted and truncated
Rank(scores, top_k, hash_order) ==
    LET results == [i \in 1..Len(hash_order) |->
                       <<hash_order[i], scores[hash_order[i]]>>]
    IN Truncate(sort_by_score(results), top_k)

\* search.rs 9-80: search.  hash_order is the order in which this call's
\* scores map yields its entries: a HashMap is seeded per instance, so the
\* order is any order of its keys.
search(index, query, top_k, hash_order) ==
    Rank(ScoresOf(index, query), top_k, hash_order)

(***************************************************************************)
(* The spell suggester.                                                    *)
(***************************************************************************)
\* search.rs 133-168: the distance with adjacent transpositions, over the
\* characters of a and b; dp[i, j] is the code's dp[i][j]
damerau_levenshtein(a, b) ==
    LET n == Len(a)
        m == Len(b)
        dp[i \in 0..n, j \in 0..m] ==
            IF j = 0 THEN i
            ELSE IF i = 0 THEN j
            ELSE LET cost == IF a[i] = b[j] THEN 0 ELSE 1
                     base == Min(Min(dp[i - 1, j] + 1, dp[i, j - 1] + 1),
                                 dp[i - 1, j - 1] + cost)
                 IN IF /\ i > 1
                       /\ j > 1
                       /\ a[i] = b[j - 1]
                       /\ a[i - 1] = b[j]
                    THEN Min(base, dp[i - 2, j - 2] + 1)
                    ELSE base
    IN dp[n, m]

\* search.rs 184-185: score = -(dist) * 3.0 + (df + 1.0).ln(), in fixed
\* point
SuggestScore(dist, df) == Ln(df + 1, 1) - 3 * dist * Scale

\* search.rs 178-187: the candidates pushed while the dictionary is
\* iterated in dict_order
RECURSIVE SuggestCands(_, _, _, _, _)
SuggestCands(index, token, max_dist, dict_order, i) ==
    IF i > Len(dict_order) THEN <<>>
    ELSE LET term == dict_order[i]
             dist == damerau_levenshtein(term, token)
             rest == SuggestCands(index, token, max_dist, dict_order, i + 1)
         IN IF dist > max_dist THEN rest
            ELSE << <<term, SuggestScore(dist, Len(index.dict[term]))>> >> \o rest

\* search.rs 170-195: suggest_terms.  dict_order is the order in which
\* index.dict.iter() yields the entries of this store.
suggest_terms(index, token, max_dist, max_suggestions, dict_order) ==
    LET cands == SuggestCands(index, token, max_dist, dict_order, 1)
        sorted == sort_by_score(cands)
        taken == Take(sorted, max_suggestions)
    IN [i \in 1..Len(taken) |-> taken[i][1]]

(***************************************************************************)
(* build_index as a state machine.                                         *)
(***************************************************************************)
TokOff ==
    /\ tpc = "off"
    /\ tinput = <<>>
    /\ ttokens = <<>>

SuggestOff ==
    /\ arg_token = <<>>
    /\ arg_max_dist = 0
    /\ arg_max_suggestions = 0
    /\ suggested = <<>>
    /\ suggested2 = <<>>
    /\ sug_results = <<>>

SearchOff ==
    /\ SuggestOff
    /\ spc = "off"
    /\ idx = NewStore
    /\ files = <<>>
    /\ arg_query = <<>>
    /\ arg_top_k = 0
    /\ returned = <<>>
    /\ returned2 = <<>>
    /\ arg_query2 = <<>>

BuildOff ==
    /\ pc = "off"
    /\ walk = <<>>
    /\ limit = <<>>
    /\ selected = <<>>
    /\ task = <<>>
    /\ page = <<>>
    /\ processed_data = <<>>
    /\ store = NewStore
    /\ next_doc = 0
    /\ blob = <<>>
    /\ wpos = 0
    /\ bw = <<>>
    /\ disk = <<>>
    /\ outcome = "none"
    /\ dir_exists = FALSE
    /\ io_error = FALSE
    /\ load_outcome = "none"
    /\ loaded = NewStore

Init ==
    /\ TokOff
    /\ SearchOff
    /\ pc = "walk"
    /\ walk \in SeqsUpTo(WalkItems, MaxWalk)
    /\ limit \in Limits
    /\ selected = <<>>
    /\ task = <<>>
    /\ page = <<>>
    /\ processed_data = <<>>
    /\ store = NewStore
    /\ next_doc = 0
    /\ blob = <<>>
    /\ wpos = 0
    /\ bw = <<>>
    /\ disk = <<>>
    /\ outcome = "none"
    /\ dir_exists \in BOOLEAN
    /\ io_error = FALSE
    /\ load_outcome = "none"
    /\ loaded = NewStore

\* indexer.rs 57-65: enumerate and select
Enumerate ==
    /\ pc = "walk"
    /\ selected' = Selected(Entries(walk), limit)
    /\ task' = [i \in 1..Len(selected') |-> "todo"]
    /\ page' = [i \in 1..Len(selected') |-> <<>>]
    /\ processed_data' = [i \in 1..Len(selected') |-> NoResult]
    /\ pc' = "par"
    /\ UNCHANGED <<walk, limit, store, next_doc, blob, wpos, bw, disk, outcome>>
    /\ UNCHANGED <<dir_exists, io_error>>
    /\ UNCHANGED loadVars
    /\ UNCHANGED tokVars
    /\ UNCHANGED searchVars

\* indexer.rs 70-75: a worker of the pool takes the i-th entry and parses it
StartTask(i) ==
    /\ pc = "par"
    /\ task[i] = "todo"
    /\ task' = [task EXCEPT ![i] = "running"]
    /\ page' = [page EXCEPT ![i] = <<ParsedPage(selected[i])>>]
    /\ UNCHANGED <<pc, walk, limit, selected, processed_data, store, next_doc,
                   blob, wpos, bw, disk, outcome>>
    /\ UNCHANGED <<dir_exists, io_error>>
    /\ UNCHANGED loadVars
    /\ UNCHANGED tokVars
    /\ UNCHANGED searchVars

\* indexer.rs 77-100: the task tokenizes and returns its result
FinishTask(i) ==
    /\ pc = "par"
    /\ task[i] = "running"
    /\ task' = [task EXCEPT ![i] = "done"]
    /\ processed_data' = Collect(processed_data, i, ProcessPage(page[i][1]))
    /\ UNCHANGED <<pc, walk, limit, selected, page, store, next_doc,
                   blob, wpos, bw, disk, outcome>>
    /\ UNCHANGED <<dir_exists, io_error>>
    /\ UNCHANGED loadVars
    /\ UNCHANGED tokVars
    /\ UNCHANGED searchVars

\* indexer.rs 101-104: collect() returns once every task is done
Collected ==
    /\ pc = "par"
    /\ \A i \in DOMAIN task : task[i] = "done"
    /\ store' = NewStore
    /\ next_doc' = 0
    /\ pc' = "assemble"
    /\ UNCHANGED <<walk, limit, selected, task, page, processed_data,
                   blob, wpos, bw, disk, outcome>>
    /\ UNCHANGED <<dir_exists, io_error>>
    /\ UNCHANGED loadVars
    /\ UNCHANGED tokVars
    /\ UNCHANGED searchVars

\* indexer.rs 106-115: one iteration of the sequential assembly
Assemble ==
    /\ pc = "assemble"
    /\ next_doc < Len(processed_data)
    /\ store' = AssembleDoc(store, next_doc, processed_data[next_doc + 1][1])
    /\ next_doc' = next_doc + 1
    /\ UNCHANGED <<pc, walk, limit, selected, task, page, processed_data,
                   blob, wpos, bw, disk, outcome>>
    /\ UNCHANGED <<dir_exists, io_error>>
    /\ UNCHANGED loadVars
    /\ UNCHANGED tokVars
    /\ UNCHANGED searchVars

\* indexer.rs 117-121
Finalize ==
    /\ pc = "assemble"
    /\ next_doc = Len(processed_data)
    /\ store' = Freeze(store)
    /\ pc' = "mkdir"
    /\ UNCHANGED <<walk, limit, selected, task, page, processed_data, next_doc,
                   blob, wpos, bw, disk, outcome>>
    /\ UNCHANGED <<dir_exists, io_error>>
    /\ UNCHANGED loadVars
    /\ UNCHANGED tokVars
    /\ UNCHANGED searchVars

\* indexer.rs 124: create_dir_all(..)? creates the parent directory of out
\* when it is missing.
CreateDirAll ==
    /\ pc = "mkdir"
    /\ \E ok \in BOOLEAN :
          IF ok
          THEN /\ dir_exists' = TRUE
               /\ pc' = "create"
               /\ UNCHANGED <<outcome, io_error>>
          ELSE /\ io_error' = TRUE
               /\ pc' = "exit"
               /\ outcome' = "Err"
               /\ UNCHANGED dir_exists
    /\ UNCHANGED <<walk, limit, selected, task, page, processed_data, store,
                   next_doc, blob, wpos, bw, disk>>
    /\ UNCHANGED loadVars
    /\ UNCHANGED tokVars
    /\ UNCHANGED searchVars

\* indexer.rs 42-43: File::create(path)? creates the file or truncates it,
\* and fails when the parent directory of path does not exist; the
\* BufWriter starts empty.
SaveCreate ==
    /\ pc = "create"
    /\ \E ok \in BOOLEAN :
          IF ok /\ dir_exists
          THEN /\ disk' = <<>>
               /\ bw' = <<>>
               /\ wpos' = 0
               /\ blob' = Serialize(store, DictOrder(store.dict))
               /\ pc' = "write"
               /\ UNCHANGED <<outcome, io_error>>
          ELSE /\ pc' = "exit"
               /\ outcome' = "Err"
               /\ io_error' = (io_error \/ dir_exists)
               /\ UNCHANGED <<disk, bw, wpos, blob>>
    /\ UNCHANGED <<walk, limit, selected, task, page, processed_data, store,
                   next_doc, dir_exists>>
    /\ UNCHANGED loadVars
    /\ UNCHANGED tokVars
    /\ UNCHANGED searchVars

\* BufWriter::flush_buf: the buffer goes to the file, or the write fails
\* after some of it went; what was written leaves the buffer.
FlushOk == disk' = disk \o bw /\ bw' = <<>>

FlushFails ==
    \E n \in 0..(Len(bw) - 1) :
        /\ disk' = disk \o SubSeq(bw, 1, n)
        /\ bw' = SubSeq(bw, n + 1, Len(bw))

\* indexer.rs 44: serialize_into(&mut bw, ..)? writes the next unit.  A unit
\* that does not fit the buffer's spare capacity flushes the buffer first,
\* and the error of that flush is returned.
SaveWrite ==
    /\ pc = "write"
    /\ wpos < Len(blob)
    /\ IF Len(bw) + 1 > BufCapacity
       THEN \/ /\ disk' = disk \o bw
               /\ bw' = <<blob[wpos + 1]>>
               /\ wpos' = wpos + 1
               /\ UNCHANGED <<pc, outcome, io_error>>
            \/ /\ FlushFails
               /\ io_error' = TRUE
               /\ outcome' = "Err"
               /\ pc' = "drop"
               /\ UNCHANGED wpos
       ELSE /\ bw' = Append(bw, blob[wpos + 1])
            /\ wpos' = wpos + 1
            /\ UNCHANGED <<pc, outcome, disk, io_error>>
    /\ UNCHANGED <<walk, limit, selected, task, page, processed_data, store,
                   next_doc, blob, dir_exists>>
    /\ UNCHANGED loadVars
    /\ UNCHANGED tokVars
    /\ UNCHANGED searchVars

\* indexer.rs 45: Ok(()) once every unit is written to the BufWriter
SaveReturnsOk ==
    /\ pc = "write"
    /\ wpos = Len(blob)
    /\ outcome' = "Ok"
    /\ pc' = "drop"
    /\ UNCHANGED <<walk, limit, selected, task, page, processed_data, store,
                   next_doc, blob, wpos, bw, disk>>
    /\ UNCHANGED <<dir_exists, io_error>>
    /\ UNCHANGED loadVars
    /\ UNCHANGED tokVars
    /\ UNCHANGED searchVars

\* indexer.rs 46: bw goes out of scope; BufWriter's Drop flushes what is
\* still buffered and ignores the error of that flush.
DropWriter ==
    /\ pc = "drop"
    /\ \/ FlushOk /\ UNCHANGED io_error
       \/ bw # <<>> /\ FlushFails /\ io_error' = TRUE
    /\ pc' = "exit"
    /\ UNCHANGED <<walk, limit, selected, task, page, processed_data, store,
                   next_doc, blob, wpos, outcome, dir_exists>>
    /\ UNCHANGED loadVars
    /\ UNCHANGED tokVars
    /\ UNCHANGED searchVars

Next ==
    \/ Enumerate
    \/ \E i \in DOMAIN task : StartTask(i)
    \/ \E i \in DOMAIN task : FinishTask(i)
    \/ Collected
    \/ Assemble
    \/ Finalize
    \/ CreateDirAll
    \/ SaveCreate
    \/ SaveWrite
    \/ SaveReturnsOk
    \/ DropWriter

Spec == Init /\ [][Next]_vars

(***************************************************************************)
(* The tokenizer on its own: tokenize applied to every bounded input.      *)
(***************************************************************************)
Alphabet == {"a", "i", "A", "1", "HEH", "ALEF", "NOON", "AKAF", "AYEH",
             "IDOT", "ZWNJ", "SP", "PUNCT"}

\* The characters the suffix rule is about, with a 1-byte letter.
SuffixAlphabet == {"a", "HEH", "ALEF", "NOON"}

TokInputs == SeqsUpTo(Alphabet, MaxLen) \cup SeqsUpTo(SuffixAlphabet, MaxWordLen)

TokInit ==
    /\ BuildOff
    /\ SearchOff
    /\ tpc = "input"
    /\ tinput \in TokInputs
    /\ ttokens = <<>>

Tokenize ==
    /\ tpc = "input"
    /\ ttokens' = tokenize(tinput)
    /\ tpc' = "done"
    /\ UNCHANGED tinput
    /\ UNCHANGED buildVars
    /\ UNCHANGED searchVars

TokNext == Tokenize

SpecTok == TokInit /\ [][TokNext]_vars

(***************************************************************************)
(* The scorer on its own: search called once, and once again, on every     *)
(* store build_index assembles from a bounded set of files.                *)
(***************************************************************************)
FileLists ==
    {[j \in 1..Len(cs) |-> [path |-> j, content |-> cs[j]]] :
        cs \in SeqsUpTo(Contents, MaxDocs)}

Queries ==
    { <<"a">>, <<"b">>, <<"1", "A">>, <<"b", "SP", "a", "SP", "a">>,
      <<"i">>, <<"a", "SP", "i">>, <<"PUNCT">>, <<>> }

SearchInit ==
    /\ TokOff
    /\ BuildOff
    /\ SuggestOff
    /\ spc = "ready"
    /\ files \in FileLists
    /\ idx = IndexOf(files)
    /\ arg_query = <<>>
    /\ arg_top_k = 0
    /\ returned = <<>>
    /\ returned2 = <<>>
    /\ arg_query2 = <<>>

\* A call search(&idx, q, k).
Search ==
    /\ spc = "ready"
    /\ \E q \in Queries :
          LET scores == ScoresOf(idx, q)
          IN \E k \in 0..MaxTopK, hash_order \in Orderings(DOMAIN scores) :
                /\ arg_query' = q
                /\ arg_top_k' = k
                /\ returned' = Rank(scores, k, hash_order)
    /\ spc' = "once"
    /\ UNCHANGED <<idx, files, returned2, arg_query2>>
    /\ UNCHANGED suggestVars
    /\ UNCHANGED tokVars
    /\ UNCHANGED buildVars

\* The same call again, on the unchanged index.
SearchAgain ==
    /\ spc = "once"
    /\ LET scores == ScoresOf(idx, arg_query)
       IN \E hash_order \in Orderings(DOMAIN scores) :
             returned2' = Rank(scores, arg_top_k, hash_order)
    /\ spc' = "twice"
    /\ UNCHANGED <<idx, files, arg_query, arg_top_k, returned, arg_query2>>
    /\ UNCHANGED suggestVars
    /\ UNCHANGED tokVars
    /\ UNCHANGED buildVars

SearchNext == Search \/ SearchAgain

SpecSearch == SearchInit /\ [][SearchNext]_vars

(***************************************************************************)
(* IndexStore::save and IndexStore::load on their own: a constructed store *)
(* is saved to a path whose parent directory exists or not, and the file   *)
(* at that path is loaded.  A file that does not exist and an empty file   *)
(* both read as <<>>: load returns an error on either.                     *)
(***************************************************************************)
\* The HashMap the decoder collects the n entries data[2] .. data[n + 1]
\* into: a later entry of a term replaces an earlier one.
DictOfEntries(data, n) ==
    [t \in {data[i + 1].term : i \in 1..n} |->
        LET last == CHOOSE i \in 1..n :
                       /\ data[i + 1].term = t
                       /\ \A j \in 1..n : data[j + 1].term = t => j <= i
        IN data[last + 1].postings]

\* indexer.rs 51: bincode::deserialize_from reads the fields in the order
\* serialize_into wrote them and fails when the data end before the value
\* is complete.
Deserialize(data) ==
    IF Len(data) < 1 THEN [ok |-> FALSE]
    ELSE LET n == data[1].len
         IN IF Len(data) < n + 2 THEN [ok |-> FALSE]
            ELSE LET m == data[n + 2].len
                 IN IF Len(data) < n + m + 3 THEN [ok |-> FALSE]
                    ELSE [ok |-> TRUE,
                          store |-> [dict |-> DictOfEntries(data, n),
                                     docs |-> [i \in 1..m |-> data[n + 2 + i].doc],
                                     doc_count |-> data[n + m + 3].u64]]

\* The stores build_index constructs from the files of the model.
ConstructedStores == {IndexOf(fs) : fs \in FileLists}

StoreInit ==
    /\ TokOff
    /\ SearchOff
    /\ pc = "create"
    /\ store \in ConstructedStores
    /\ dir_exists \in BOOLEAN
    /\ walk = <<>>
    /\ limit = <<>>
    /\ selected = <<>>
    /\ task = <<>>
    /\ page = <<>>
    /\ processed_data = <<>>
    /\ next_doc = 0
    /\ blob = <<>>
    /\ wpos = 0
    /\ bw = <<>>
    /\ disk = <<>>
    /\ outcome = "none"
    /\ io_error = FALSE
    /\ load_outcome = "none"
    /\ loaded = NewStore

\* indexer.rs 48-53: load(path), after save has returned and its writer is
\* dropped.  File::open or a read of the file fails, or the decoder runs
\* on the file's content.
Load ==
    /\ pc = "exit"
    /\ \/ /\ load_outcome' = "IoErr"
          /\ UNCHANGED loaded
       \/ LET r == Deserialize(disk)
          IN IF r.ok
             THEN load_outcome' = "Ok" /\ loaded' = r.store
             ELSE load_outcome' = "Corrupt" /\ UNCHANGED loaded
    /\ pc' = "loaded"
    /\ UNCHANGED <<walk, limit, selected, task, page, processed_data, store,
                   next_doc, blob, wpos, bw, disk, outcome, dir_exists,
                   io_error>>
    /\ UNCHANGED tokVars
    /\ UNCHANGED searchVars

StoreNext ==
    \/ SaveCreate
    \/ SaveWrite
    \/ SaveReturnsOk
    \/ DropWriter
    \/ Load

SpecStore == StoreInit /\ [][StoreNext]_vars

(***************************************************************************)
(* The proximity boost: search called with a query of one or more words on *)
(* a store whose documents hold the words at several distances, and once   *)
(* more with the same words in another order.                              *)
(***************************************************************************)
ProxContents == {"p3", "p5"}

ProxFileLists ==
    {[j \in 1..Len(cs) |-> [path |-> j, content |-> cs[j]]] :
        cs \in SeqsUpTo(ProxContents, MaxProxDocs)}

\* The words of the queries.
ProxWordLists ==
    { << <<"a">> >>, << <<"a">>, <<"a">> >>, << <<"b">>, <<"a">> >>,
      << <<"a">>, <<"1">> >>, << <<"a">>, <<"i">> >>, << <<"a">>, <<"2">> >>,
      << <<"a">>, <<"1">>, <<"i">> >>, << <<"a">>, <<"b">>, <<"2">> >>,
      << <<"b">>, <<"a">>, <<"a">> >> }

\* The words joined by single spaces into a query string.
RECURSIVE JoinWords(_)
JoinWords(words) ==
    IF words = <<>> THEN <<>>
    ELSE IF Len(words) = 1 THEN words[1]
    ELSE words[1] \o <<"SP">> \o JoinWords(Tail(words))

\* server.rs 142: the top_k of the handler's search of the query
HANDLER_TOP_K == 1000

ProxInit ==
    /\ TokOff
    /\ BuildOff
    /\ SuggestOff
    /\ spc = "ready"
    /\ files \in ProxFileLists
    /\ idx = IndexOf(files)
    /\ arg_query = <<>>
    /\ arg_top_k = 0
    /\ returned = <<>>
    /\ returned2 = <<>>
    /\ arg_query2 = <<>>

\* A call search(&idx, q, 1000).
ProxSearch ==
    /\ spc = "ready"
    /\ \E words \in ProxWordLists :
          LET q == JoinWords(words)
              scores == ScoresOf(idx, q)
          IN \E hash_order \in Orderings(DOMAIN scores) :
                /\ arg_query' = q
                /\ returned' = Rank(scores, HANDLER_TOP_K, hash_order)
    /\ arg_top_k' = HANDLER_TOP_K
    /\ spc' = "once"
    /\ UNCHANGED <<idx, files, returned2, arg_query2>>
    /\ UNCHANGED suggestVars
    /\ UNCHANGED tokVars
    /\ UNCHANGED buildVars

\* A second call on the unchanged index, with the words of the first query
\* in any order.
ProxSearchReordered ==
    /\ spc = "once"
    /\ LET words == split_whitespace(arg_query)
       IN \E perm \in Orderings(1..Len(words)) :
             LET q == JoinWords([i \in 1..Len(words) |-> words[perm[i]]])
                 scores == ScoresOf(idx, q)
             IN \E hash_order \in Orderings(DOMAIN scores) :
                   /\ arg_query2' = q
                   /\ returned2' = Rank(scores, arg_top_k, hash_order)
    /\ spc' = "twice"
    /\ UNCHANGED <<idx, files, arg_query, arg_top_k, returned>>
    /\ UNCHANGED suggestVars
    /\ UNCHANGED tokVars
    /\ UNCHANGED buildVars

ProxNext == ProxSearch \/ ProxSearchReordered

SpecProx == ProxInit /\ [][ProxNext]_vars

(***************************************************************************)
(* The spell suggester on its own: suggest_terms called on a built store,  *)
(* then either called again on a store with the same content and another   *)
(* iteration order of its dictionary, or followed by the handler's loop    *)
(* that passes every suggestion to search.                                 *)
(***************************************************************************)
SuggestContents == {"p1", "p3", "p4"}

SuggestFileLists ==
    {[j \in 1..Len(cs) |-> [path |-> j, content |-> cs[j]]] :
        cs \in SeqsUpTo(SuggestContents, MaxSuggestDocs)}

SuggestTokens == { <<"a">>, <<"b">>, <<"i">>, <<"a", "a", "HEH", "ALEF">> }

\* server.rs 154: the top_k of the search of a suggestion
SUGGESTION_TOP_K == 30

SuggestInit ==
    /\ TokOff
    /\ BuildOff
    /\ SuggestOff
    /\ spc = "ready"
    /\ files \in SuggestFileLists
    /\ idx = IndexOf(files)
    /\ arg_query = <<>>
    /\ arg_top_k = 0
    /\ returned = <<>>
    /\ returned2 = <<>>
    /\ arg_query2 = <<>>

\* A call suggest_terms(&idx, t, max_dist, max_suggestions).
Suggest ==
    /\ spc = "ready"
    /\ \E t \in SuggestTokens, max_dist \in 0..MaxDistArg,
          max_suggestions \in 0..MaxSuggestionsArg,
          dict_order \in Orderings(DOMAIN idx.dict) :
            /\ arg_token' = t
            /\ arg_max_dist' = max_dist
            /\ arg_max_suggestions' = max_suggestions
            /\ suggested' = suggest_terms(idx, t, max_dist, max_suggestions,
                                          dict_order)
    /\ spc' = "suggested"
    /\ UNCHANGED <<files, idx, arg_query, arg_top_k, returned, returned2,
                   arg_query2>>
    /\ UNCHANGED <<suggested2, sug_results>>
    /\ UNCHANGED tokVars
    /\ UNCHANGED buildVars

\* The same call on a store of the same content whose dictionary yields
\* its entries in an order of its own.
SuggestAgain ==
    /\ spc = "suggested"
    /\ \E dict_order \in Orderings(DOMAIN idx.dict) :
          suggested2' = suggest_terms(idx, arg_token, arg_max_dist,
                                      arg_max_suggestions, dict_order)
    /\ spc' = "again"
    /\ UNCHANGED <<files, idx, arg_query, arg_top_k, returned, returned2,
                   arg_query2>>
    /\ UNCHANGED <<arg_token, arg_max_dist, arg_max_suggestions, suggested,
                   sug_results>>
    /\ UNCHANGED tokVars
    /\ UNCHANGED buildVars

\* server.rs 152-155: one iteration of the loop over the suggestions:
\* extra_results.extend(search(&data.index, sug, 30))
ExpandSuggestion ==
    /\ spc \in {"suggested", "expanding"}
    /\ Len(sug_results) < Len(suggested)
    /\ LET sug == suggested[Len(sug_results) + 1]
           scores == ScoresOf(idx, sug)
       IN \E hash_order \in Orderings(DOMAIN scores) :
             sug_results' = Append(sug_results,
                                   Rank(scores, SUGGESTION_TOP_K, hash_order))
    /\ spc' = "expanding"
    /\ UNCHANGED <<files, idx, arg_query, arg_top_k, returned, returned2,
                   arg_query2>>
    /\ UNCHANGED <<arg_token, arg_max_dist, arg_max_suggestions, suggested,
                   suggested2>>
    /\ UNCHANGED tokVars
    /\ UNCHANGED buildVars

SuggestNext == Suggest \/ SuggestAgain \/ ExpandSuggestion

SpecSuggest == SuggestInit /\ [][SuggestNext]_vars

(***************************************************************************)
(* Properties of the scorer, checked under SpecSearch.                     *)
(***************************************************************************)
\* The tokens of a file, title first, as the builder sees them.
FileTokens(entry) ==
    LET p == ParsedPage(entry)
    IN tokenize(p.title) \o tokenize(p.body)

SeqSet(s) == {s[i] : i \in 1..Len(s)}

\* The doc_ids (0-based places in fs) of the files that contain every term
\* of a non-empty list of query terms.
Matching(fs, qterms) ==
    {d \in 0..(Len(fs) - 1) : \A i \in 1..Len(qterms) :
        qterms[i] \in SeqSet(FileTokens(fs[d + 1]))}

AndGate(ret) ==
    LET qterms == tokenize(arg_query)
        wanted == IF qterms = <<>> THEN 0
                  ELSE Min(arg_top_k, Cardinality(Matching(files, qterms)))
    IN /\ \A i, j \in 1..Len(ret) : ret[i][1] = ret[j][1] => i = j
       /\ \A i \in 1..Len(ret) : \A k \in 1..Len(qterms) :
             /\ qterms[k] \in DOMAIN idx.dict
             /\ ret[i][1] \in DocIds(idx.dict[qterms[k]])
       /\ Len(ret) = wanted
       /\ (qterms = <<>> \/ \E k \in 1..Len(qterms) : qterms[k] \notin DOMAIN idx.dict)
             => ret = <<>>

\* C1: search returns pairwise-distinct doc_ids, each with a posting under
\* every term of tokenize(query); it returns min(top_k, number of documents
\* that contain every query term) pairs, and nothing when tokenize(query) is
\* empty or a query term is not in the dictionary.
C1_SearchAndGate ==
    /\ spc \in {"once", "twice"} => AndGate(returned)
    /\ spc = "twice" => AndGate(returned2)

\* A two-term query that three documents match, cut to top_k = 2.
C1_Witness ==
    /\ spc = "once"
    /\ Len(tokenize(arg_query)) >= 2
    /\ Cardinality(Matching(files, tokenize(arg_query))) = 3
    /\ arg_top_k = 2
    /\ Len(returned) = 2

\* C2: search is deterministic: the same call on the unchanged index
\* returns the same sequence of (doc_id, score) pairs, also when candidates
\* have equal scores and top_k is smaller than the number of candidates.
C2_SearchDeterministic == spc = "twice" => returned2 = returned

TopK(ret) ==
    LET scores == ScoresOf(idx, arg_query)
        kept == {ret[i][1] : i \in 1..Len(ret)}
    IN /\ \A i \in 1..Len(ret) :
             ret[i][1] \in DOMAIN scores /\ ret[i][2] = scores[ret[i][1]]
       /\ \A i, j \in 1..Len(ret) : i < j => ret[i][2] >= ret[j][2]
       /\ \A d \in DOMAIN scores \ kept : \A i \in 1..Len(ret) :
             scores[d] <= ret[i][2]

\* C3: the returned sequence is ordered by score non-increasing and is a
\* true top-k: a candidate left out by the truncation scores no higher than
\* any returned document.
C3_SearchTopK ==
    /\ spc \in {"once", "twice"} => TopK(returned)
    /\ spc = "twice" => TopK(returned2)

\* Two returned documents with different scores and a third candidate that
\* the truncation left out.
C3_Witness ==
    /\ spc = "once"
    /\ Len(returned) = 2
    /\ returned[1][2] > returned[2][2]
    /\ Cardinality(DOMAIN ScoresOf(idx, arg_query)) = 3

(***************************************************************************)
(* Properties of the tokenizer, checked under SpecTok.                     *)
(***************************************************************************)
\* The suffix rule with the length counted in characters.
StripByCharCount(w) ==
    IF Len(w) > 4 /\ (ends_with(w, SUFFIX_HA) \/ ends_with(w, SUFFIX_AN))
    THEN SubSeq(w, 1, Len(w) - 2)
    ELSE w

\* C4: tokenize removes the last two characters of a word if and only if
\* the word has more than 4 characters and ends with one of the two
\* suffixes; every word of 4 or fewer characters is emitted unchanged.
C4_StripOnlyLongWords ==
    tpc = "done" =>
        LET words == split_whitespace(normalize_text(tinput))
        IN ttokens = [i \in 1..Len(words) |-> StripByCharCount(words[i])]

\* The code points that stay upper case are none: a token's letters are
\* lower-case letters.
LowerLetters == Letters \ {"A", "IDOT"}

OnlyDigits(t) == \A i \in 1..Len(t) : is_numeric(t[i])

OnlyLetters(t) == \A i \in 1..Len(t) : t[i] \in LowerLetters

\* Letters, and the combining dot above directly after an "i".
OnlyLettersOrDot(t) ==
    \A i \in 1..Len(t) :
        \/ t[i] \in LowerLetters
        \/ t[i] = "DOTABOVE" /\ i > 1 /\ t[i - 1] = "i"

\* A digit directly followed by a letter, or a letter by a digit, at i.
Boundary(s, i) ==
    \/ is_numeric(s[i]) /\ is_alphabetic(s[i + 1])
    \/ is_alphabetic(s[i]) /\ is_numeric(s[i + 1])

\* The tokens break where the input has a digit/letter boundary or a ZWNJ,
\* and no token holds U+064A or U+0643.
Breaks ==
    /\ \A i \in 1..(Len(tinput) - 1) : Boundary(tinput, i) =>
          ttokens = tokenize(SubSeq(tinput, 1, i))
                    \o tokenize(SubSeq(tinput, i + 1, Len(tinput)))
    /\ \A i \in 1..Len(tinput) : tinput[i] = "ZWNJ" =>
          ttokens = tokenize(SubSeq(tinput, 1, i - 1))
                    \o tokenize(SubSeq(tinput, i + 1, Len(tinput)))
    /\ \A k \in 1..Len(ttokens) : \A i \in 1..Len(ttokens[k]) :
          ttokens[k][i] \notin {"AYEH", "AKAF"}

\* C5 as stated: every token is non-empty and consists only of digits or
\* only of lower-cased letters; a digit/letter boundary and a ZWNJ always
\* break the token; U+064A and U+0643 never appear in a token.
C5_TokensDigitsOrLetters ==
    tpc = "done" =>
        /\ \A k \in 1..Len(ttokens) :
              /\ ttokens[k] # <<>>
              /\ OnlyDigits(ttokens[k]) \/ OnlyLetters(ttokens[k])
        /\ Breaks

\* C5 as amended: every token is non-empty and consists only of digits, or
\* only of lower-cased letters and the combining dot above (U+0307) that
\* lower-casing U+0130 puts after its "i"; a digit/letter boundary and a
\* ZWNJ always break the token; U+064A and U+0643 never appear in a token.
C5_TokensDigitsOrLettersOrDot ==
    tpc = "done" =>
        /\ \A k \in 1..Len(ttokens) :
              /\ ttokens[k] # <<>>
              /\ OnlyDigits(ttokens[k]) \/ OnlyLettersOrDot(ttokens[k])
        /\ Breaks

\* U+0130, then a digit directly followed by an Arabic kaf: three tokens.
C5_Witness ==
    /\ tpc = "done"
    /\ tinput = <<"IDOT", "1", "AKAF">>
    /\ ttokens = << <<"i", "DOTABOVE">>, <<"1">>, <<"KEHEH">> >>

(***************************************************************************)
(* Properties of build_index, checked under Spec.                          *)
(***************************************************************************)
\* build_index has assembled and frozen its store.
Built == pc \in {"mkdir", "create", "write", "drop", "exit"}

StrictlyIncreasing(s) == \A i, j \in 1..Len(s) : i < j => s[i] < s[j]

WellFormed(s) ==
    /\ s.doc_count = Len(s.docs)
    /\ \A t \in DOMAIN s.dict :
          LET postings == s.dict[t]
          IN /\ \A i \in 1..Len(postings) :
                   LET p == postings[i]
                   IN /\ p.tf = Len(p.positions)
                      /\ p.tf >= 1
                      /\ StrictlyIncreasing(p.positions)
                      /\ p.doc_id >= 0
                      /\ p.doc_id < s.doc_count
                      /\ \A k \in 1..Len(p.positions) :
                            /\ p.positions[k] >= 0
                            /\ p.positions[k] < s.docs[p.doc_id + 1].length
             /\ \A i, j \in 1..Len(postings) :
                   i < j => postings[i].doc_id < postings[j].doc_id

\* C6: every store build_index produces is well formed: each posting's tf
\* is the number of its positions and at least 1, its positions are
\* strictly increasing and smaller than the document's length, its doc_id
\* is smaller than doc_count = len(docs), and each posting list is sorted
\* by doc_id ascending with no doc_id twice.
C6_StoreWellFormed == Built => WellFormed(store)

\* A built store with a term of two documents and a posting of tf >= 2.
C6_Witness ==
    /\ pc = "exit"
    /\ outcome = "Ok"
    /\ \E t \in DOMAIN store.dict :
          /\ Len(store.dict[t]) >= 2
          /\ \E i \in 1..Len(store.dict[t]) : store.dict[t][i].tf >= 2

\* The postings of doc_id, one per term that has one.
PostingsOf(s, doc_id) ==
    {<<t, i>> \in (DOMAIN s.dict) \X (1..MaxWalk) :
        i <= Len(s.dict[t]) /\ s.dict[t][i].doc_id = doc_id}

RECURSIVE SumTf(_, _)
SumTf(s, ps) ==
    IF ps = {} THEN 0
    ELSE LET x == CHOOSE y \in ps : TRUE
         IN s.dict[x[1]][x[2]].tf + SumTf(s, ps \ {x})

\* C7: for every document d of a built store, docs[d].length is the number
\* of title tokens plus the number of body tokens and the sum of the tf of
\* d's postings; position i of d is recorded under the i-th token (0-based)
\* of the title tokens followed by the body tokens and under no other term,
\* so the positions of d's terms partition 0..length-1.
C7_LengthAndPositions ==
    Built =>
        /\ Len(store.docs) = Len(selected)
        /\ \A d \in 0..(Len(store.docs) - 1) :
              LET p == ParsedPage(selected[d + 1])
                  title_tokens == tokenize(p.title)
                  body_tokens == tokenize(p.body)
                  all == title_tokens \o body_tokens
              IN /\ store.docs[d + 1].length = Len(title_tokens) + Len(body_tokens)
                 /\ store.docs[d + 1].length = SumTf(store, PostingsOf(store, d))
                 /\ \A i \in 1..Len(body_tokens) :
                       \E x \in PostingsOf(store, d) :
                          /\ x[1] = body_tokens[i]
                          /\ Len(title_tokens) + i - 1
                                \in SeqSet(store.dict[x[1]][x[2]].positions)
                 /\ \A x \in PostingsOf(store, d) :
                       SeqSet(store.dict[x[1]][x[2]].positions)
                          = {i \in 0..(Len(all) - 1) : all[i + 1] = x[1]}

\* A document whose title and body share a term: the term's posting holds
\* a position inside the title and one inside the body.
C7_Witness ==
    /\ pc = "exit"
    /\ \E d \in 0..(Len(store.docs) - 1) :
          LET n == Len(tokenize(store.docs[d + 1].title))
          IN /\ n >= 1
             /\ store.docs[d + 1].length >= n + 2
             /\ \E x \in PostingsOf(store, d) :
                   LET positions == store.dict[x[1]][x[2]].positions
                   IN /\ Len(positions) >= 2
                      /\ positions[1] < n
                      /\ positions[2] >= n

\* C8: doc-id assignment is independent of scheduling: whatever the order
\* in which the per-document tasks start and finish, the document of the
\* i-th selected file gets doc_id i and the store is the one assembled from
\* the selected files in their order; the tasks only fill their own slot of
\* the results and leave the store alone.
C8_DocIdsIndependentOfScheduling ==
    /\ pc = "par" =>
          /\ store = NewStore
          /\ \A i \in DOMAIN processed_data :
                IF task[i] = "done"
                THEN processed_data[i] = <<ProcessPage(ParsedPage(selected[i]))>>
                ELSE processed_data[i] = NoResult
    /\ pc = "assemble" =>
          /\ Len(store.docs) = next_doc
          /\ \A i \in 1..Len(store.docs) : store.docs[i].url = selected[i].path
    /\ Built =>
          /\ store = IndexOf(selected)
          /\ \A i \in 1..Len(store.docs) : store.docs[i].url = selected[i].path

\* The task of the second file has finished while the task of the first is
\* still running.
C8_Witness ==
    /\ pc = "par"
    /\ Len(selected) >= 2
    /\ selected[1].content # selected[2].content
    /\ task[1] = "running"
    /\ task[2] = "done"

\* The regular files of the walk, by their place in it.
FilePlaces == {j \in 1..Len(walk) : walk[j] \in Contents}

ExpectedDocCount ==
    IF limit = <<>> THEN Cardinality(FilePlaces)
    ELSE Min(limit[1], Cardinality(FilePlaces))

\* C9: a file that fails to parse neither aborts build_index nor is
\* dropped: it gets a doc_id, with url = its path, empty title and body,
\* length 0 and no postings; doc_count is min(limit, number of regular
\* files enumerated) and the documents are the first files of the
\* enumeration, in its order.
C9_ParseFailureKeepsFile ==
    /\ pc \in {"walk", "par", "assemble"} => outcome = "none"
    /\ Built =>
          /\ store.doc_count = ExpectedDocCount
          /\ \A d \in 0..(store.doc_count - 1) :
                LET meta == store.docs[d + 1]
                IN /\ meta.url \in FilePlaces
                   /\ Cardinality({j \in FilePlaces : j < meta.url}) = d
                   /\ walk[meta.url] = "unreadable" =>
                         /\ meta.title = <<>>
                         /\ meta.body = <<>>
                         /\ meta.length = 0
                         /\ PostingsOf(store, d) = {}

\* Three regular files, the first unreadable, and a limit of 2.
C9_Witness ==
    /\ pc = "exit"
    /\ outcome = "Ok"
    /\ Cardinality(FilePlaces) = 3
    /\ limit = <<2>>
    /\ store.doc_count = 2
    /\ store.docs[1].length = 0
    /\ store.docs[2].length > 0

\* C10: every I/O error on the output path is surfaced: save, and with it
\* build_index, never returns Ok when some unit of the blob did not reach
\* the file.
C10_SaveSurfacesIoErrors ==
    (pc = "exit" /\ outcome = "Ok") => disk = blob

(***************************************************************************)
(* Properties of save and load, checked under SpecStore.                   *)
(***************************************************************************)
\* save has returned and its writer is dropped.
Saved == pc \in {"exit", "loaded"}

\* C11: for any constructed store and any path, save creates the missing
\* parent directory and writes the blob (it returns Ok with the whole blob
\* in the file unless an operation on the path fails); a load that follows
\* a save that returned Ok returns a store equal to the saved one in dict,
\* docs and doc_count; and load of a file that holds less than the blob
\* returns an error instead of a store.
C11_SaveLoadRoundTrip ==
    /\ (Saved /\ ~io_error) =>
          /\ outcome = "Ok"
          /\ dir_exists
          /\ disk = Serialize(store, DictOrder(store.dict))
    /\ (pc = "loaded" /\ outcome = "Ok" /\ load_outcome # "IoErr") =>
          /\ load_outcome = "Ok"
          /\ loaded = store
    /\ (pc = "loaded" /\ disk # Serialize(store, DictOrder(store.dict))) =>
          load_outcome # "Ok"

(***************************************************************************)
(* Properties of the spell suggester, checked under SpecSuggest.           *)
(***************************************************************************)
\* The dictionary terms within max_dist of the token of the call.
Qualifying ==
    {term \in DOMAIN idx.dict :
        damerau_levenshtein(term, arg_token) <= arg_max_dist}

SuggestionScore(term) ==
    SuggestScore(damerau_levenshtein(term, arg_token), Len(idx.dict[term]))

SuggestionsWellFormed(sugg) ==
    /\ Len(sugg) = Min(arg_max_suggestions, Cardinality(Qualifying))
    /\ \A i, j \in 1..Len(sugg) : sugg[i] = sugg[j] => i = j
    /\ \A i \in 1..Len(sugg) : sugg[i] \in Qualifying
    /\ \A i, j \in 1..Len(sugg) :
          i < j => SuggestionScore(sugg[i]) >= SuggestionScore(sugg[j])

\* C12: suggest_terms returns min(max_suggestions, number of qualifying
\* terms) distinct dictionary terms, each within max_dist of the token,
\* ordered by s = -3 d + ln(df + 1) descending, and the list does not
\* depend on the order in which the dictionary is iterated: the call on a
\* store of the same content and another iteration order returns the same
\* list.
C12_SuggestOrderInsensitive ==
    /\ spc \in {"suggested", "again", "expanding"} =>
          SuggestionsWellFormed(suggested)
    /\ spc = "again" =>
          /\ SuggestionsWellFormed(suggested2)
          /\ suggested2 = suggested

(***************************************************************************)
(* Properties of the proximity boost, checked under SpecProx.  The         *)
(* distances are taken from the files' tokens, not from the index.         *)
(***************************************************************************)
\* The 0-based places of term in a token list.
PlacesOf(tokens, term) == {i - 1 : i \in {k \in 1..Len(tokens) : tokens[k] = term}}

\* The least |a - b| over the places a of t1 and b of t2; 0 for a pair of
\* identical terms.  Both terms occur in tokens.
StatedPairDist(tokens, t1, t2) ==
    IF t1 = t2 THEN 0
    ELSE LET ds == {AbsDiff(a, b) : a \in PlacesOf(tokens, t1),
                                    b \in PlacesOf(tokens, t2)}
         IN CHOOSE d \in ds : \A e \in ds : d <= e

\* D: the sum over the adjacent pairs of query terms from the i-th on.
RECURSIVE StatedTotalDist(_, _, _)
StatedTotalDist(tokens, qterms, i) ==
    IF i >= Len(qterms) THEN 0
    ELSE StatedPairDist(tokens, qterms[i], qterms[i + 1])
         + StatedTotalDist(tokens, qterms, i + 1)

StatedBoost(tokens, qterms) ==
    LET n == Len(qterms)
        D == StatedTotalDist(tokens, qterms, 1)
    IN IF n < 2 THEN 0
       ELSE IF D <= n - 1 THEN 5 * Scale
       ELSE IF D <= 2 * (n - 1) THEN (5 * Scale) \div 2
       ELSE IF D <= 5 * (n - 1) THEN Scale
       ELSE 0

\* What the i-th returned pair got on top of its BM25 sum and title boost.
BoostReceived(ret, q, i) ==
    LET qterms == tokenize(q)
        d == ret[i][1]
    IN ret[i][2] - Bm25Sum(idx, qterms, 1, d)
                 - TitleHits(idx, qterms, d) * TITLE_WEIGHT * Scale

\* Every candidate is returned, once, with the stated boost.
BoostsAsStated(ret, q) ==
    LET qterms == tokenize(q)
    IN /\ {ret[i][1] : i \in 1..Len(ret)} = Matching(files, qterms)
       /\ Len(ret) = Cardinality(Matching(files, qterms))
       /\ \A i \in 1..Len(ret) :
             BoostReceived(ret, q, i)
                = StatedBoost(FileTokens(files[ret[i][1] + 1]), qterms)

\* A document gets the same boost from both calls.
SameBoosts ==
    \A i \in 1..Len(returned), j \in 1..Len(returned2) :
        returned[i][1] = returned2[j][1] =>
            BoostReceived(returned, arg_query, i)
               = BoostReceived(returned2, arg_query2, j)

Reverse(seq) == [i \in 1..Len(seq) |-> seq[Len(seq) + 1 - i]]

\* C13 as stated: for a query of n >= 2 tokens every candidate gets
\* exactly one proximity boost, the band of D = the sum over the adjacent
\* query-term pairs of the least |a - b| (+5.0 if D <= n-1, else +2.5 if
\* D <= 2(n-1), else +1.0 if D <= 5(n-1), else 0), a pair of identical
\* adjacent terms contributing 0; a query of one token gets no boost; and
\* the boost does not depend on the order of the terms: the same words in
\* any other order give every document the same boost.
C13_BoostAnyTermOrder ==
    /\ spc \in {"once", "twice"} => BoostsAsStated(returned, arg_query)
    /\ spc = "twice" =>
          /\ BoostsAsStated(returned2, arg_query2)
          /\ SameBoosts

\* C13 as amended: the same, with the independence of the order kept for
\* what the sum over adjacent pairs leaves unchanged: the order of the two
\* terms of a pair, and so the query read backwards (every reordering of a
\* two-token query).
C13_BoostPairOrder ==
    /\ spc \in {"once", "twice"} => BoostsAsStated(returned, arg_query)
    /\ spc = "twice" =>
          /\ BoostsAsStated(returned2, arg_query2)
          /\ tokenize(arg_query2) \in {tokenize(arg_query),
                                        Reverse(tokenize(arg_query))}
                => SameBoosts

\* A three-token query whose terms lie 1 and 3 places apart in a document
\* (D = 4, the +2.5 band), searched again backwards.
C13_Witness ==
    /\ spc = "twice"
    /\ Len(tokenize(arg_query)) = 3
    /\ tokenize(arg_query2) = Reverse(tokenize(arg_query))
    /\ arg_query2 # arg_query
    /\ \E i \in 1..Len(returned) :
          /\ StatedTotalDist(FileTokens(files[returned[i][1] + 1]),
                             tokenize(arg_query), 1) = 4
          /\ BoostReceived(returned, arg_query, i) = (5 * Scale) \div 2
    /\ returned2 # <<>>

(***************************************************************************)
(* Properties of the handler's expansion, checked under SpecSuggest.       *)
(***************************************************************************)
\* C14: dictionary terms are fixed points of the normalizer: every term t
\* that suggest_terms returns from the dictionary of a built store has
\* tokenize(t) = [t], and the search of a suggestion returns the documents
\* of that term's posting list.
C14_DictTermsAreFixedPoints ==
    /\ \A i \in 1..Len(suggested) :
          /\ suggested[i] \in DOMAIN idx.dict
          /\ tokenize(suggested[i]) = <<suggested[i]>>
    /\ \A i \in 1..Len(sug_results) :
          {sug_results[i][j][1] : j \in 1..Len(sug_results[i])}
             = DocIds(idx.dict[suggested[i]])

====
